---- MODULE Spec2Model ----
(***************************************************************************)
(* Event Grid -> Logic App proxy (functionapp/eventgrid-proxy/index.js).   *)
(* One invocation of the exported handler, as a state machine whose steps  *)
(* are the handler's runs between two suspension points (an awaited POST,  *)
(* an awaited backoff sleep).                                              *)
(*                                                                         *)
(* Strings that the code inspects piecewise (JSON texts, URLs) are         *)
(* sequences of tokens.  A response body and the forwardedBody echo        *)
(* (RETURN_FORWARDED_BODY) of the downstream receiver are not modelled.    *)
(***************************************************************************)
EXTENDS Integers, Sequences, FiniteSets, TLC

\* ------------------------------------------------------------------ bounds
MaxBatch == 2
MaxAttemptsBound == 3

\* ------------------------------------------------------------- JS values
UNDEF == "<undefined>"
UNSET == "<unset>"
UnsetUrl == <<"<unset>">>
EmptyUrl == <<>>
NullUrl == <<"null">>

ValidationEventType == "Microsoft.EventGrid.SubscriptionValidationEvent"
BlobCreatedType == "Microsoft.Storage.BlobCreated"

NoData == [present |-> FALSE, validationCode |-> UNDEF]
DataValues ==
  {NoData} \cup {[present |-> TRUE, validationCode |-> c] : c \in {UNDEF, "", "abc123"}}

HandshakeRecords == {[eventType |-> ValidationEventType, data |-> d] : d \in DataValues}
StorageRecords ==
  { [eventType |-> BlobCreatedType, data |-> NoData],
    [eventType |-> UNDEF, data |-> [present |-> TRUE, validationCode |-> "abc123"]] }
Records == HandshakeRecords \cup StorageRecords
\* records enumerated at positions 2.. of a batch
TailRecords ==
  { [eventType |-> BlobCreatedType, data |-> NoData],
    [eventType |-> ValidationEventType,
     data |-> [present |-> TRUE, validationCode |-> "abc123"]] }

NoRecord == [eventType |-> UNDEF, data |-> NoData]

Undefined == [kind |-> "undefined", text |-> <<>>, items |-> <<>>]
Null == [kind |-> "null", text |-> <<>>, items |-> <<>>]
StringValue(t) == [kind |-> "string", text |-> t, items |-> <<>>]
ObjectValue(r) == [kind |-> "object", text |-> <<>>, items |-> <<r>>]
ArrayValue(rs) == [kind |-> "array", text |-> <<>>, items |-> rs]

RECURSIVE Tails(_)
Tails(n) ==
  IF n = 0 THEN {<<>>}
  ELSE Tails(n - 1) \cup {<<r>> \o t : r \in TailRecords, t \in Tails(n - 1)}

Batches == {<<>>} \cup {<<r>> \o t : r \in Records, t \in Tails(MaxBatch - 1)}

StructuredValues ==
  {Null} \cup {ObjectValue(r) : r \in Records} \cup {ArrayValue(b) : b \in Batches}

\* ------------------------------------------------------------ JSON text
StringifyData(d) ==
  <<"{">> \o (IF d.validationCode # UNDEF
              THEN <<"validationCode", ":", d.validationCode>> ELSE <<>>) \o <<"}">>

StringifyRecord(r) ==
  <<"{">>
  \o (IF r.eventType # UNDEF THEN <<"eventType", ":", r.eventType>> ELSE <<>>)
  \o (IF r.eventType # UNDEF /\ r.data.present THEN <<",">> ELSE <<>>)
  \o (IF r.data.present THEN <<"data", ":">> \o StringifyData(r.data) ELSE <<>>)
  \o <<"}">>

RECURSIVE StringifyItems(_)
StringifyItems(rs) ==
  IF Len(rs) = 0 THEN <<>>
  ELSE IF Len(rs) = 1 THEN StringifyRecord(rs[1])
  ELSE StringifyRecord(rs[1]) \o <<",">> \o StringifyItems(Tail(rs))

\* JSON.stringify
Stringify(v) ==
  IF v.kind = "null" THEN <<"null">>
  ELSE IF v.kind = "string" THEN <<"\"">> \o v.text \o <<"\"">>
  ELSE IF v.kind = "object" THEN StringifyRecord(v.items[1])
  ELSE IF v.kind = "array" THEN <<"[">> \o StringifyItems(v.items) \o <<"]">>
  ELSE <<>>

GarbageText == <<"not", " ", "json">>
BlankText == <<" ">>
StringTexts ==
  { <<>>, BlankText, GarbageText,
    Stringify(ObjectValue([eventType |-> BlobCreatedType, data |-> NoData])) }
StringValues == {StringValue(t) : t \in StringTexts}
JsonValues == StructuredValues \cup StringValues

RawTexts == {Stringify(v) : v \in StructuredValues} \cup {<<>>, BlankText, GarbageText}

\* String.prototype.trim
RECURSIVE TrimLeft(_)
TrimLeft(t) == IF Len(t) > 0 /\ t[1] = " " THEN TrimLeft(Tail(t)) ELSE t
RECURSIVE TrimRight(_)
TrimRight(t) ==
  IF Len(t) > 0 /\ t[Len(t)] = " " THEN TrimRight(SubSeq(t, 1, Len(t) - 1)) ELSE t
Trim(t) == TrimRight(TrimLeft(t))

\* JSON.parse: the value whose text this is; no such value = SyntaxError
JsonTexts == {Stringify(v) : v \in JsonValues}
ParseTable == [x \in JsonTexts |-> CHOOSE v \in JsonValues : Stringify(v) = x]
Parses(t) == Trim(t) \in JsonTexts
JsonParse(t) == ParseTable[Trim(t)]

safeJsonParse(x) ==
  IF Parses(x) THEN [ok |-> TRUE, value |-> JsonParse(x)]
  ELSE [ok |-> FALSE, value |-> Null]

\* JS truthiness of a value
Truthy(v) ==
  \/ v.kind \in {"object", "array"}
  \/ v.kind = "string" /\ v.text # <<>>

\* ------------------------------------------------------- process.env
NextUrl == <<"https://next.example/invoke", "?", "api-version", "=", "2016", "&", "sig", "=", "NEXT-SECRET">>
ActiveUrl == <<"https://active.example/invoke", "?", "Sig", "=", "ACTIVE-SECRET", "&", "sv", "=", "1.0">>

DigitStrings == <<"1", "2", "3", "4", "5", "6", "7", "8", "9">>

Envs ==
  [ LOGICAPP_CALLBACK_URL_NEXT : {UnsetUrl, EmptyUrl, NullUrl, NextUrl},
    LOGICAPP_CALLBACK_URL_ACTIVE : {UnsetUrl, NullUrl, ActiveUrl},
    FORWARD_ALLOW_FALLBACK : {UNSET, "TRUE", "false"},
    FORWARD_MAX_ATTEMPTS : {UNSET} \cup {DigitStrings[i] : i \in 1..MaxAttemptsBound},
    FORWARD_BASE_DELAY_MS : {"2"},
    FORWARD_MAX_DELAY_MS : {"5"} ]

\* x || d  for an environment string
OrDefault(x, d) == IF x = UNSET \/ x = "" THEN d ELSE x
\* x || ""  for an environment URL
OrEmptyUrl(x) == IF x = UnsetUrl THEN EmptyUrl ELSE x

\* parseInt(s, 10) on the decimal strings in use
ParseInt(s) ==
  IF s = "500" THEN 500
  ELSE IF s = "8000" THEN 8000
  ELSE CHOOSE i \in 1..Len(DigitStrings) : DigitStrings[i] = s

ToLowerCase(s) ==
  IF s \in {"TRUE", "True"} THEN "true"
  ELSE IF s \in {"FALSE", "False"} THEN "false"
  ELSE IF s \in {"SIG", "Sig", "sIg", "siG"} THEN "sig"
  ELSE s

Min(a, b) == IF a <= b THEN a ELSE b

RECURSIVE Pow2(_)
Pow2(n) == IF n <= 0 THEN 1 ELSE 2 * Pow2(n - 1)

\* ------------------------------------------------------------- helpers
SigAt(url, i) ==
  /\ i + 3 <= Len(url)
  /\ url[i] \in {"?", "&"}
  /\ ToLowerCase(url[i + 1]) = "sig"
  /\ url[i + 2] = "="
  /\ url[i + 3] # "&"

\* variant: the pattern without its i flag, so that Sig= or SIG= is not matched
redactSigCaseSensitive(url) ==
  LET At(i) == SigAt(url, i) /\ url[i + 1] = "sig"
  IN IF url = <<>> THEN url
     ELSE IF \E i \in 1..Len(url) : At(i)
          THEN LET i == CHOOSE k \in 1..Len(url) : At(k) /\ \A j \in 1..(k - 1) : ~At(j)
               IN [url EXCEPT ![i + 3] = "REDACTED"]
          ELSE url

redactSig(url) ==
  IF url = <<>> THEN url
  ELSE IF \E i \in 1..Len(url) : SigAt(url, i)
       THEN LET i == CHOOSE k \in 1..Len(url) :
                       SigAt(url, k) /\ \A j \in 1..(k - 1) : ~SigAt(url, j)
            IN [url EXCEPT ![i + 3] = "REDACTED"]
       ELSE url

\* variant: every 4xx and 5xx status is retried
isRetryableStatusAnyError(status) == status >= 400 /\ status <= 599

isRetryableStatus(status) ==
  status = 408 \/ status = 429 \/ (status >= 500 /\ status <= 599)

\* variant: only 200 counts as success
IsSuccessOnly200(status) == status = 200

IsSuccess(status) == status >= 200 /\ status < 300

\* variant: the stable slot is listed ahead of the canary slot
selectCallbackUrlsActiveFirst(e) ==
  LET next == OrEmptyUrl(e.LOGICAPP_CALLBACK_URL_NEXT)
      active == OrEmptyUrl(e.LOGICAPP_CALLBACK_URL_ACTIVE)
  IN (IF active # EmptyUrl /\ active # NullUrl
      THEN <<[label |-> "ACTIVE", url |-> active]>> ELSE <<>>)
     \o (IF next # EmptyUrl /\ next # NullUrl
         THEN <<[label |-> "NEXT", url |-> next]>> ELSE <<>>)

selectCallbackUrls(e) ==
  LET next == OrEmptyUrl(e.LOGICAPP_CALLBACK_URL_NEXT)
      active == OrEmptyUrl(e.LOGICAPP_CALLBACK_URL_ACTIVE)
  IN (IF next # EmptyUrl /\ next # NullUrl
      THEN <<[label |-> "NEXT", url |-> next]>> ELSE <<>>)
     \o (IF active # EmptyUrl /\ active # NullUrl
         THEN <<[label |-> "ACTIVE", url |-> active]>> ELSE <<>>)

AllowFallbackOf(e) == ToLowerCase(OrDefault(e.FORWARD_ALLOW_FALLBACK, "true")) = "true"

MaxAttemptsOf(e) == ParseInt(OrDefault(e.FORWARD_MAX_ATTEMPTS, "4"))
BaseDelayMsOf(e) == ParseInt(OrDefault(e.FORWARD_BASE_DELAY_MS, "500"))
MaxDelayMsOf(e) == ParseInt(OrDefault(e.FORWARD_MAX_DELAY_MS, "8000"))

JitterCapMs == 250
ExpDelay(maxDelay, baseDelay, a) == Min(maxDelay, baseDelay * Pow2(a - 1))
\* Math.floor(Math.random() * m)
Jitters(m) == IF m <= 0 THEN {0} ELSE 0..(m - 1)
\* variant: the sum of exponential delay and jitter is not clamped again
BackoffDelaysUnclamped(maxDelay, baseDelay, a) ==
  LET exp == ExpDelay(maxDelay, baseDelay, a)
  IN {exp + jitter : jitter \in Jitters(Min(JitterCapMs, exp))}

BackoffDelays(maxDelay, baseDelay, a) ==
  LET exp == ExpDelay(maxDelay, baseDelay, a)
  IN {Min(maxDelay, exp + jitter) : jitter \in Jitters(Min(JitterCapMs, exp))}

\* body intake: req.body, else the parsed req.rawBody
IntakeBody(r) ==
  IF ~Truthy(r.body) /\ r.rawBody.isString /\ Trim(r.rawBody.text) # <<>>
  THEN LET parsed == safeJsonParse(r.rawBody.text)
       IN IF parsed.ok THEN parsed.value ELSE r.body
  ELSE r.body

\* first = Array.isArray(body) ? body[0] : body ;  first?.eventType
HasFirstRecord(b) == b.kind = "object" \/ (b.kind = "array" /\ Len(b.items) > 0)
FirstRecord(b) == IF HasFirstRecord(b) THEN b.items[1] ELSE NoRecord
\* variant: a handshake record at any position of the batch makes it a handshake
IsValidationEventAnywhere(b) ==
  /\ HasFirstRecord(b)
  /\ \E i \in DOMAIN b.items : b.items[i].eventType = ValidationEventType

IsValidationEvent(b) == FirstRecord(b).eventType = ValidationEventType

\* variant: first.data.validationCode without the || "" default
ValidationCodeOfNoDefault(b) ==
  IF FirstRecord(b).data.present THEN FirstRecord(b).data.validationCode ELSE UNDEF

\* first?.data?.validationCode || ""
ValidationCodeOf(b) ==
  LET code == IF FirstRecord(b).data.present
              THEN FirstRecord(b).data.validationCode ELSE UNDEF
  IN IF code = UNDEF \/ code = "" THEN "" ELSE code

\* variant: the configuration check moved ahead of the handshake branch
RouteCandidatesFirst(b, cands) ==
  IF ~Truthy(b) THEN "empty"
  ELSE IF Len(cands) = 0 THEN "nocandidates"
  ELSE IF IsValidationEvent(b) THEN "handshake"
  ELSE "forward"

\* the branch the handler takes, in the order of its early returns
Route(b, cands) ==
  IF ~Truthy(b) THEN "empty"
  ELSE IF IsValidationEvent(b) THEN "handshake"
  ELSE IF Len(cands) = 0 THEN "nocandidates"
  ELSE "forward"

\* variant: a single event is normalised to a one-element array before sending
PostPayloadNormalized(b) ==
  Stringify(IF b.kind = "object" THEN ArrayValue(b.items) ELSE b)

\* JSON.stringify(body) written to the request
PostPayload(b) == Stringify(b)

\* ------------------------------------------------------------ responses
BlankBody ==
  [ keys |-> {}, ok |-> FALSE, error |-> "", details |-> "", validationResponse |-> "",
    forwardedStatus |-> 0, attempts |-> 0, usedCallback |-> "" ]
NoResponse == [status |-> 0, body |-> BlankBody]

\* variant: rejects an empty body with 400, as the first revision of the handler did
EmptyBodyRes400 ==
  [ status |-> 400,
    body |-> [BlankBody EXCEPT !.keys = {"error"}, !.error = "Empty body"] ]

EmptyBodyRes ==
  [ status |-> 200,
    body |-> [BlankBody EXCEPT !.keys = {"ok", "error"}, !.ok = FALSE,
                               !.error = "Empty/unparseable body"] ]

ValidationRes(code) ==
  [ status |-> 200,
    body |-> [BlankBody EXCEPT !.keys = {"validationResponse"}, !.validationResponse = code] ]

\* variant: the missing configuration reported as a server error, without ok
NoCandidatesRes500 ==
  [ status |-> 500,
    body |-> [BlankBody EXCEPT !.keys = {"error"},
                               !.error = "No Logic App callback URL configured"] ]

NoCandidatesRes ==
  [ status |-> 200,
    body |-> [BlankBody EXCEPT !.keys = {"ok", "error"}, !.ok = FALSE,
                               !.error = "No Logic App callback URL configured"] ]

\* variant: any result the retry loop returns is reported as ok
ForwardResOkAlways(resp, usedLabel) ==
  [ status |-> 200,
    body |-> [BlankBody EXCEPT !.keys = {"ok", "forwardedStatus", "attempts", "usedCallback"},
                               !.ok = TRUE,
                               !.forwardedStatus = resp.status,
                               !.attempts = resp.attempts,
                               !.usedCallback = usedLabel] ]

ForwardRes(resp, usedLabel) ==
  [ status |-> 200,
    body |-> [BlankBody EXCEPT !.keys = {"ok", "forwardedStatus", "attempts", "usedCallback"},
                               !.ok = IsSuccess(resp.status),
                               !.forwardedStatus = resp.status,
                               !.attempts = resp.attempts,
                               !.usedCallback = usedLabel] ]

\* variant: the hard failure reports the default attempt count, not the configured one
ForwardErrorResDefaultAttempts(e, usedLabel, det) ==
  [ status |-> 200,
    body |-> [BlankBody EXCEPT !.keys = {"ok", "forwardedStatus", "attempts", "usedCallback",
                                         "error", "details"},
                               !.ok = FALSE,
                               !.forwardedStatus = 0,
                               !.attempts = ParseInt("4"),
                               !.usedCallback = usedLabel,
                               !.error = "Forwarding failed after retries",
                               !.details = det] ]

ForwardErrorRes(e, usedLabel, det) ==
  [ status |-> 200,
    body |-> [BlankBody EXCEPT !.keys = {"ok", "forwardedStatus", "attempts", "usedCallback",
                                         "error", "details"},
                               !.ok = FALSE,
                               !.forwardedStatus = 0,
                               !.attempts = MaxAttemptsOf(e),
                               !.usedCallback = usedLabel,
                               !.error = "Forwarding failed after retries",
                               !.details = det] ]

\* variant: the exhausted outcome ignores the result the last candidate returned
ExhaustedResNoLast(e, lastResp, usedLabel, det) ==
  [ status |-> 200,
    body |-> [BlankBody EXCEPT !.keys = {"ok", "forwardedStatus", "attempts", "usedCallback",
                                         "error", "details"},
                               !.ok = FALSE,
                               !.forwardedStatus = 0,
                               !.attempts = MaxAttemptsOf(e),
                               !.usedCallback = usedLabel,
                               !.error = "Forwarding failed (all candidates exhausted)",
                               !.details = det] ]

ExhaustedRes(e, lastResp, usedLabel, det) ==
  [ status |-> 200,
    body |-> [BlankBody EXCEPT !.keys = {"ok", "forwardedStatus", "attempts", "usedCallback",
                                         "error", "details"},
                               !.ok = FALSE,
                               !.forwardedStatus = IF lastResp.set THEN lastResp.status ELSE 0,
                               !.attempts = IF lastResp.set THEN lastResp.attempts
                                            ELSE MaxAttemptsOf(e),
                               !.usedCallback = usedLabel,
                               !.error = "Forwarding failed (all candidates exhausted)",
                               !.details = det] ]

\* variant: the fault leaves the handler and the host replies with a server error
UnhandledResEscaped(e) ==
  [ status |-> 500, body |-> BlankBody ]

UnhandledRes(e) ==
  [ status |-> 200,
    body |-> [BlankBody EXCEPT !.keys = {"ok", "error", "details"}, !.ok = FALSE,
                               !.error = "Unhandled exception (caught)",
                               !.details = e] ]

\* --------------------------------------------------------------- errors
NullErr == "null"
NetworkError == "Error: connect ECONNREFUSED"
RetriesError == "Error: Forwarding failed after retries"
ReqTypeError == "TypeError: Cannot read properties of undefined (reading 'body')"

\* ---------------------------------------------------------------- state
VARIABLES
  req,          \* the request handed to the handler
  env,          \* process.env
  downstream,   \* the statuses the downstream receiver may answer with
  pc,           \* "start", "posting" (await postJsonOnce), "sleeping" (await sleep), "done"
  body, candidates, allowFallback, idx, used, last, details,   \* locals of the handler
  maxAttempts, baseDelayMs, maxDelayMs, attempt, retryLast, lastErr,  \* locals of postJsonWithRetry
  delay,        \* the backoff being slept
  sleeps,       \* number of backoff sleeps started
  posts,        \* every POST issued, in order
  log,          \* context.log lines: source line and interpolated strings
  res,          \* context.res
  resCount      \* number of assignments to context.res

inputVars == <<req, env, downstream>>
handlerVars == <<body, candidates, allowFallback, idx, used, last, details>>
retryVars == <<maxAttempts, baseDelayMs, maxDelayMs, attempt, retryLast, lastErr>>
vars == <<inputVars, pc, handlerVars, retryVars, delay, sleeps, posts, log, res, resCount>>

NoLast == [set |-> FALSE, status |-> 0, attempts |-> 0]
NoRetryLast == [status |-> 0]

NoRawBody == [isString |-> FALSE, text |-> <<>>]
RawBody(t) == [isString |-> TRUE, text |-> t]
NoRequest == [present |-> FALSE, body |-> Undefined, rawBody |-> NoRawBody]

Requests ==
  {NoRequest}
  \cup {[present |-> TRUE, body |-> Undefined, rawBody |-> NoRawBody]}
  \cup {[present |-> TRUE, body |-> Undefined, rawBody |-> RawBody(t)] : t \in RawTexts}
  \cup {[present |-> TRUE, body |-> v, rawBody |-> RawBody(Stringify(v))] : v \in StructuredValues}
  \cup {[present |-> TRUE, body |-> StringValue(t), rawBody |-> RawBody(t)] : t \in StringTexts}

CoreStatuses == {202, 404, 503}

InitOver(requests, envs, statusSets) ==
  /\ req \in requests
  /\ env \in envs
  /\ downstream \in statusSets
  /\ pc = "start"
  /\ body = Undefined
  /\ candidates = <<>>
  /\ allowFallback = FALSE
  /\ idx = 0
  /\ used = "NONE"
  /\ last = NoLast
  /\ details = ""
  /\ maxAttempts = 0
  /\ baseDelayMs = 0
  /\ maxDelayMs = 0
  /\ attempt = 0
  /\ retryLast = NoRetryLast
  /\ lastErr = NullErr
  /\ delay = 0
  /\ sleeps = 0
  /\ posts = <<>>
  /\ log = <<>>
  /\ res = NoResponse
  /\ resCount = 0

Init == InitOver(Requests, Envs, {CoreStatuses})

\* ------------------------------------------------------------ log lines
LogLine(n, t) == [line |-> n, text |-> t]

RECURSIVE CandidatesText(_)
CandidatesText(cs) ==
  IF Len(cs) = 0 THEN <<>>
  ELSE <<cs[1].label, "=">> \o redactSig(cs[1].url)
       \o (IF Len(cs) > 1 THEN <<" | ">> ELSE <<>>) \o CandidatesText(Tail(cs))

\* ---------------------------------------------------------- postJsonOnce
PostEntry(c, a, b) ==
  [ label |-> c.label, url |-> c.url, attempt |-> a, payload |-> PostPayload(b),
    state |-> "inflight", status |-> 0 ]

Resolved(ps, s) == [ps EXCEPT ![Len(ps)].state = "response", ![Len(ps)].status = s]
Rejected(ps) == [ps EXCEPT ![Len(ps)].state = "error"]

\* variant: the attempt counter reported zero-based
RetryResultZeroBased(status, a) == [set |-> TRUE, status |-> status, attempts |-> a - 1]

\* {...resp, attempts: attempt}
RetryResult(status, a) == [set |-> TRUE, status |-> status, attempts |-> a]

\* variant: a retryable status is retried without looking at the attempt number
RetryAfterResponseNoLimit(status, a, maxA) ==
  ~IsSuccess(status) /\ isRetryableStatus(status)

\* the retry loop goes on after a response
RetryAfterResponse(status, a, maxA) ==
  ~IsSuccess(status) /\ ~(~isRetryableStatus(status) \/ a = maxA)
\* the retry loop goes on after a network error
RetryAfterError(a, maxA) == ~(a = maxA)

\* variant: any returned response ends the invocation (fallback on thrown errors only)
OutcomeIsTerminalAlways(success, fallback, label) == TRUE

\* success || !allowFallback || c.label === "ACTIVE"
OutcomeIsTerminal(success, fallback, label) == success \/ ~fallback \/ label = "ACTIVE"
\* variant: the catch branch forgets the fallback flag
ErrorIsTerminalActiveOnly(fallback, label) == label = "ACTIVE"

\* !allowFallback || c.label === "ACTIVE"
ErrorIsTerminal(fallback, label) == ~fallback \/ label = "ACTIVE"

\* ------------------------------------------------ steps of the handler
SetRes(r) ==
  /\ res' = r
  /\ resCount' = resCount + 1
  /\ pc' = "done"

\* the handler returns with response r; rl, le: the finished retry loop's last, lastErr
Finish(r, ps, lg, rl, le) ==
  /\ SetRes(r)
  /\ posts' = ps
  /\ log' = lg
  /\ retryLast' = rl
  /\ lastErr' = le
  /\ UNCHANGED <<idx, used, maxAttempts, baseDelayMs, maxDelayMs, attempt>>

\* variant: the candidates are posted to side by side instead of one after the other
StartCandidateFanOut(cands, i, b, ps) ==
  /\ idx' = i
  /\ used' = cands[i].label
  /\ maxAttempts' = MaxAttemptsOf(env)
  /\ baseDelayMs' = BaseDelayMsOf(env)
  /\ maxDelayMs' = MaxDelayMsOf(env)
  /\ retryLast' = NoRetryLast
  /\ lastErr' = NullErr
  /\ attempt' = 1
  /\ posts' = ps \o [k \in 1..(Len(cands) - i + 1) |-> PostEntry(cands[Len(cands) + 1 - k], 1, b)]
  /\ pc' = "posting"
  /\ UNCHANGED <<res, resCount>>

\* enter postJsonWithRetry for candidate i and issue its first POST
\* (the tunables are positive, so the loop body is entered)
StartCandidate(cands, i, b, ps) ==
  /\ idx' = i
  /\ used' = cands[i].label
  /\ maxAttempts' = MaxAttemptsOf(env)
  /\ baseDelayMs' = BaseDelayMsOf(env)
  /\ maxDelayMs' = MaxDelayMsOf(env)
  /\ retryLast' = NoRetryLast
  /\ lastErr' = NullErr
  /\ attempt' = 1
  /\ posts' = Append(ps, PostEntry(cands[i], 1, b))
  /\ pc' = "posting"
  /\ UNCHANGED <<res, resCount>>

\* variant: after the last candidate the loop starts over with the first one
TryNextWrapAround(ps, lg, lastNow, detailsNow, rl, le) ==
  /\ StartCandidate(candidates, (idx % Len(candidates)) + 1, body, ps)
  /\ log' = lg

\* the for-of loop moves on: next candidate, or "all candidates exhausted"
TryNext(ps, lg, lastNow, detailsNow, rl, le) ==
  IF idx < Len(candidates)
  THEN /\ StartCandidate(candidates, idx + 1, body, ps)
       /\ log' = lg
  ELSE Finish(ExhaustedRes(env, lastNow, used, detailsNow), ps, lg, rl, le)

\* postJsonWithRetry returned resp
AfterReturn(resp, ps, rl, le) ==
  LET c == candidates[idx]
      lg == Append(log, LogLine(172, <<c.label>>))
  IN /\ last' = resp
     /\ UNCHANGED details
     /\ IF OutcomeIsTerminal(IsSuccess(resp.status), allowFallback, c.label)
        THEN Finish(ForwardRes(resp, used), ps, lg, rl, le)
        ELSE TryNext(ps, Append(lg, LogLine(198, <<c.label>>)), resp, details, rl, le)

\* throw lastErr || new Error("Forwarding failed after retries")
ThrownErr(le) == IF le = NullErr THEN RetriesError ELSE le

\* postJsonWithRetry threw err
AfterThrow(err, ps, rl, le) ==
  LET c == candidates[idx]
      det == err
      lg == Append(log, LogLine(201, <<c.label, det>>))
  IN /\ details' = det
     /\ UNCHANGED last
     /\ IF ErrorIsTerminal(allowFallback, c.label)
        THEN Finish(ForwardErrorRes(env, used, det), ps, lg, rl, le)
        ELSE TryNext(ps, lg, last, det, rl, le)

\* req itself is undefined: req.body throws, the outer catch answers
InvokeUnhandled ==
  /\ pc = "start"
  /\ ~req.present
  /\ SetRes(UnhandledRes(ReqTypeError))
  /\ log' = Append(log, LogLine(238, <<ReqTypeError>>))
  /\ UNCHANGED <<inputVars, handlerVars, retryVars, delay, sleeps, posts>>

InvokeEmpty ==
  /\ pc = "start"
  /\ req.present
  /\ Route(IntakeBody(req), selectCallbackUrls(env)) = "empty"
  /\ body' = IntakeBody(req)
  /\ SetRes(EmptyBodyRes)
  /\ log' = Append(log, LogLine(115, <<>>))
  /\ UNCHANGED <<inputVars, candidates, allowFallback, idx, used, last, details,
                 retryVars, delay, sleeps, posts>>

InvokeHandshake ==
  /\ pc = "start"
  /\ req.present
  /\ Route(IntakeBody(req), selectCallbackUrls(env)) = "handshake"
  /\ body' = IntakeBody(req)
  /\ SetRes(ValidationRes(ValidationCodeOf(IntakeBody(req))))
  /\ log' = Append(log, LogLine(129, <<ValidationCodeOf(IntakeBody(req))>>))
  /\ UNCHANGED <<inputVars, candidates, allowFallback, idx, used, last, details,
                 retryVars, delay, sleeps, posts>>

InvokeNoCandidates ==
  /\ pc = "start"
  /\ req.present
  /\ Route(IntakeBody(req), selectCallbackUrls(env)) = "nocandidates"
  /\ body' = IntakeBody(req)
  /\ candidates' = selectCallbackUrls(env)
  /\ SetRes(NoCandidatesRes)
  /\ log' = Append(log, LogLine(140, <<>>))
  /\ UNCHANGED <<inputVars, allowFallback, idx, used, last, details,
                 retryVars, delay, sleeps, posts>>

InvokeForward ==
  /\ pc = "start"
  /\ req.present
  /\ Route(IntakeBody(req), selectCallbackUrls(env)) = "forward"
  /\ body' = IntakeBody(req)
  /\ candidates' = selectCallbackUrls(env)
  /\ allowFallback' = AllowFallbackOf(env)
  /\ log' = Append(log, LogLine(154, CandidatesText(selectCallbackUrls(env))))
  /\ StartCandidate(selectCallbackUrls(env), 1, IntakeBody(req), posts)
  /\ UNCHANGED <<inputVars, last, details, delay, sleeps>>

\* the awaited POST resolves with an HTTP status
PostResolved(status) ==
  /\ pc = "posting"
  /\ IF RetryAfterResponse(status, attempt, maxAttempts)
     THEN /\ delay' \in BackoffDelays(maxDelayMs, baseDelayMs, attempt)
          /\ sleeps' = sleeps + 1
          /\ log' = Append(log, LogLine(67, <<>>))
          /\ posts' = Resolved(posts, status)
          /\ retryLast' = [status |-> status]
          /\ pc' = "sleeping"
          /\ UNCHANGED <<handlerVars, maxAttempts, baseDelayMs, maxDelayMs, attempt, lastErr,
                         res, resCount>>
     ELSE /\ AfterReturn(RetryResult(status, attempt), Resolved(posts, status),
                         [status |-> status], lastErr)
          /\ UNCHANGED <<body, candidates, allowFallback, delay, sleeps>>
  /\ UNCHANGED inputVars

\* the awaited POST rejects: no HTTP response
PostRejected ==
  /\ pc = "posting"
  /\ IF RetryAfterError(attempt, maxAttempts)
     THEN /\ delay' \in BackoffDelays(maxDelayMs, baseDelayMs, attempt)
          /\ sleeps' = sleeps + 1
          /\ log' = Append(log, LogLine(77, <<>>))
          /\ posts' = Rejected(posts)
          /\ lastErr' = NetworkError
          /\ pc' = "sleeping"
          /\ UNCHANGED <<handlerVars, maxAttempts, baseDelayMs, maxDelayMs, attempt, retryLast,
                         res, resCount>>
     ELSE /\ AfterThrow(ThrownErr(NetworkError), Rejected(posts), retryLast, NetworkError)
          /\ UNCHANGED <<body, candidates, allowFallback, delay, sleeps>>
  /\ UNCHANGED inputVars

\* the backoff timer fires: attempt++, loop test, next POST
SleepDone ==
  /\ pc = "sleeping"
  /\ delay' = 0
  /\ IF attempt + 1 <= maxAttempts
     THEN /\ attempt' = attempt + 1
          /\ posts' = Append(posts, PostEntry(candidates[idx], attempt + 1, body))
          /\ pc' = "posting"
          /\ UNCHANGED <<handlerVars, maxAttempts, baseDelayMs, maxDelayMs, retryLast, lastErr,
                         log, res, resCount>>
     ELSE /\ AfterThrow(ThrownErr(lastErr), posts, retryLast, lastErr)
          /\ UNCHANGED <<body, candidates, allowFallback>>
  /\ UNCHANGED <<inputVars, sleeps>>

Next ==
  \/ InvokeUnhandled
  \/ InvokeEmpty
  \/ InvokeHandshake
  \/ InvokeNoCandidates
  \/ InvokeForward
  \/ \E status \in downstream : PostResolved(status)
  \/ PostRejected
  \/ SleepDone

Spec == Init /\ [][Next]_vars

\* ------------------------------------------- status-boundary specification
MaxAttemptsWide == 2

WideStatuses == {200, 299, 300, 404, 408, 429, 499, 500, 599, 600}

StatusRequests ==
  { NoRequest,
    [present |-> TRUE, body |-> Undefined, rawBody |-> NoRawBody],
    [present |-> TRUE,
     body |-> ObjectValue([eventType |-> ValidationEventType, data |-> NoData]),
     rawBody |-> RawBody(Stringify(ObjectValue([eventType |-> ValidationEventType,
                                                 data |-> NoData])))],
    [present |-> TRUE,
     body |-> ObjectValue([eventType |-> BlobCreatedType, data |-> NoData]),
     rawBody |-> RawBody(Stringify(ObjectValue([eventType |-> BlobCreatedType,
                                                 data |-> NoData])))] }

StatusEnvs ==
  { e \in Envs : /\ e.FORWARD_ALLOW_FALLBACK \in {UNSET, "false"}
                 /\ e.FORWARD_MAX_ATTEMPTS \in {DigitStrings[i] : i \in 1..MaxAttemptsWide} }

InitStatus == InitOver(StatusRequests, StatusEnvs, {WideStatuses})

SpecStatus == InitStatus /\ [][Next]_vars

\* ------------------------------------------------ liveness specification
\* every awaited POST settles, every timer fires, the host runs the handler
InitLive == InitOver(StatusRequests, Envs, {CoreStatuses})

SpecLive == InitLive /\ [][Next]_vars /\ WF_vars(Next)

\* ------------------------------------------------ backoff specification
\* the delay tunables vary: unset (500 / 8000), growing, clamped, base above max
BackoffStatuses == {202, 503}

BackoffEnvs ==
  [ LOGICAPP_CALLBACK_URL_NEXT : {NullUrl, NextUrl},
    LOGICAPP_CALLBACK_URL_ACTIVE : {UnsetUrl, ActiveUrl},
    FORWARD_ALLOW_FALLBACK : {UNSET, "false"},
    FORWARD_MAX_ATTEMPTS : {DigitStrings[i] : i \in 1..MaxAttemptsBound},
    FORWARD_BASE_DELAY_MS : {UNSET, "1", "3", "7"},
    FORWARD_MAX_DELAY_MS : {UNSET, "1", "5", "9"} ]

InitBackoff == InitOver(StatusRequests, BackoffEnvs, {BackoffStatuses})

SpecBackoff == InitBackoff /\ [][Next]_vars

\* ------------------------------------------------ vocabulary of the claims
\* the payload the event source delivered, as the handler is given it
Received ==
  IF Truthy(req.body) THEN req.body
  ELSE IF req.rawBody.isString /\ Parses(req.rawBody.text) THEN JsonParse(req.rawBody.text)
  ELSE Undefined

ReceivedHasFirst ==
  Received.kind = "object" \/ (Received.kind = "array" /\ Len(Received.items) > 0)

HandshakeInput ==
  /\ req.present
  /\ ReceivedHasFirst
  /\ Received.items[1].eventType = ValidationEventType

SlotConfigured(slot) == slot \notin {UnsetUrl, EmptyUrl, NullUrl}
BothConfigured ==
  /\ SlotConfigured(env.LOGICAPP_CALLBACK_URL_NEXT)
  /\ SlotConfigured(env.LOGICAPP_CALLBACK_URL_ACTIVE)
NoneConfigured ==
  /\ ~SlotConfigured(env.LOGICAPP_CALLBACK_URL_NEXT)
  /\ ~SlotConfigured(env.LOGICAPP_CALLBACK_URL_ACTIVE)
FallbackEnabled == env.FORWARD_ALLOW_FALLBACK \in {UNSET, "", "true", "TRUE", "True"}

Is2xx(p) == p.state = "response" /\ p.status \in 200..299
IsRetryableFailure(p) ==
  \/ p.state = "error"
  \/ p.state = "response" /\ (p.status \in {408, 429} \/ p.status \in 500..599)
PostsTo(label) == {i \in DOMAIN posts : posts[i].label = label}

\* C1: whatever the input, the configuration and the downstream's answers,
\* the handler ends with a response set, and a response that is set has
\* HTTP status 200.
C1_AlwaysStatus200 ==
  /\ pc = "done" => resCount >= 1
  /\ resCount >= 1 => res.status = 200

C1_Witness_ForwardingFailed ==
  /\ pc = "done"
  /\ Len(posts) >= 2
  /\ res.body.error = "Forwarding failed after retries"
  /\ res.status = 200

\* C2: when the first (or only) record received is a subscription-validation
\* event, the response is 200 with only validationResponse in its body, equal
\* to the record's data.validationCode, or "" when data or the code is absent
\* or empty; the outer catch is not entered.
C2_ExpectedCode ==
  LET d == Received.items[1].data
  IN IF d.present /\ d.validationCode # UNDEF THEN d.validationCode ELSE ""

C2_HandshakeEchoesCode ==
  (HandshakeInput /\ pc = "done") =>
    /\ res.status = 200
    /\ res.body.keys = {"validationResponse"}
    /\ res.body.validationResponse = C2_ExpectedCode

C2_Witness_MissingData ==
  /\ HandshakeInput
  /\ pc = "done"
  /\ ~Received.items[1].data.present
  /\ res.body.validationResponse = ""

\* C3: a handshake invocation issues no POST and sleeps no backoff, under every
\* configuration; with no target configured it still gets the handshake reply.
C3_HandshakeTerminal ==
  HandshakeInput =>
    /\ posts = <<>>
    /\ sleeps = 0
    /\ pc \in {"start", "done"}
    /\ pc = "done" => res.body.keys = {"validationResponse"}

C3_Witness_HandshakeNoTarget ==
  /\ HandshakeInput
  /\ NoneConfigured
  /\ pc = "done"
  /\ res.body.keys = {"validationResponse"}

C5_FirstTrySuccess ==
  (Len(posts) >= 1 /\ Is2xx(posts[1])) =>
    /\ Len(posts) = 1
    /\ posts[1].label = candidates[1].label
    /\ pc = "done"
    /\ res.body.ok
    /\ res.body.attempts = 1
    /\ res.body.usedCallback = posts[1].label

C5_Witness_CanaryFirstTry ==
  /\ BothConfigured
  /\ FallbackEnabled
  /\ Len(posts) = 1
  /\ Is2xx(posts[1])
  /\ res.body.usedCallback = "NEXT"

\* C6: a 2xx on attempt k of a candidate, after k-1 retryable failures of that
\* candidate, ends the invocation: success with attempts = k and no later POST.
C6_SuccessAfterRetries ==
  \A i \in DOMAIN posts :
    Is2xx(posts[i]) =>
      /\ i = Len(posts)
      /\ pc = "done"
      /\ res.body.ok
      /\ res.body.attempts = posts[i].attempt
      /\ res.body.attempts = Cardinality(PostsTo(posts[i].label))
      /\ posts[i].attempt <= MaxAttemptsOf(env)
      /\ \A j \in PostsTo(posts[i].label) : j < i => IsRetryableFailure(posts[j])

C6_Witness_503_503_2xx ==
  /\ MaxAttemptsOf(env) = 3
  /\ Len(posts) = 3
  /\ posts[1].state = "response" /\ posts[1].status = 503
  /\ posts[2].state = "response" /\ posts[2].status = 503
  /\ Is2xx(posts[3])
  /\ res.body.ok
  /\ res.body.attempts = 3

\* C7: with fallback enabled and both targets configured, a 404 from NEXT ends
\* NEXT's loop (after exactly one POST when it answers the first one), and the
\* same step issues attempt 1 to ACTIVE, which then runs its own loop of up to
\* maxAttempts attempts; if ACTIVE's loop ends in a 2xx the outcome is ok with
\* usedCallback = "ACTIVE" and ACTIVE's own attempt count.
C7_FallbackAfter404 ==
  (BothConfigured /\ FallbackEnabled) =>
    \A i \in DOMAIN posts :
      (posts[i].label = "NEXT" /\ posts[i].state = "response" /\ posts[i].status = 404) =>
        /\ \A j \in PostsTo("NEXT") : j <= i
        /\ i = 1 => Cardinality(PostsTo("NEXT")) = 1
        /\ Len(posts) > i
        /\ posts[i + 1].label = "ACTIVE"
        /\ \A j \in PostsTo("ACTIVE") :
             posts[j].attempt = j - i /\ posts[j].attempt <= MaxAttemptsOf(env)
        /\ Is2xx(posts[Len(posts)]) =>
             /\ pc = "done"
             /\ res.body.ok
             /\ res.body.usedCallback = "ACTIVE"
             /\ res.body.attempts = Len(posts) - i

C7_Witness_StableRetriesAfter404 ==
  /\ BothConfigured
  /\ FallbackEnabled
  /\ MaxAttemptsOf(env) = 3
  /\ Len(posts) = 4
  /\ posts[1].label = "NEXT" /\ posts[1].status = 404
  /\ posts[2].status = 503 /\ posts[3].state = "error"
  /\ Is2xx(posts[4])
  /\ res.body.usedCallback = "ACTIVE"
  /\ res.body.attempts = 3

\* C8: with fallback disabled and both targets configured, no POST goes to
\* ACTIVE, and once NEXT's loop has failed (non-retryable status, retryable
\* status on the last attempt, or network error on the last attempt) the
\* invocation is over with a failure outcome naming NEXT.
C8_CanaryLoopFailed ==
  /\ Len(posts) >= 1
  /\ LET p == posts[Len(posts)]
     IN /\ p.label = "NEXT"
        /\ \/ /\ p.state = "response"
              /\ ~Is2xx(p)
              /\ (~IsRetryableFailure(p) \/ p.attempt = MaxAttemptsOf(env))
           \/ p.state = "error" /\ p.attempt = MaxAttemptsOf(env)

C8_NoFallbackWhenDisabled ==
  (BothConfigured /\ ~FallbackEnabled) =>
    /\ PostsTo("ACTIVE") = {}
    /\ C8_CanaryLoopFailed =>
         /\ pc = "done"
         /\ ~res.body.ok
         /\ res.body.usedCallback = "NEXT"

C8_Witness_CanaryNetworkExhausted ==
  /\ BothConfigured
  /\ ~FallbackEnabled
  /\ C8_CanaryLoopFailed
  /\ posts[Len(posts)].state = "error"
  /\ Len(posts) >= 2
  /\ pc = "done"
  /\ res.body.usedCallback = "NEXT"

\* C9: in a candidate's loop the attempts are numbered 1, 2, ... and never
\* exceed maxAttempts; after attempt n has ended, attempt n+1 follows (the
\* backoff sleep, then the POST) exactly when attempt n was a retryable failure
\* (408, 429, 5xx, network error) and n < maxAttempts; another non-2xx status
\* is returned at once, with that status and n as the attempt count.
C9_NextAttemptFollows(i) ==
  \/ i = Len(posts) /\ pc = "sleeping"
  \/ /\ i < Len(posts)
     /\ posts[i + 1].label = posts[i].label
     /\ posts[i + 1].attempt = posts[i].attempt + 1

C9_ReturnedToHandler(i) ==
  \/ i = Len(posts)
  \/ i + 1 = Len(posts) /\ posts[i + 1].state = "inflight"

C9_RetryOnlyOnTransient ==
  \A i \in DOMAIN posts :
    LET p == posts[i]
    IN /\ p.attempt \in 1..MaxAttemptsOf(env)
       /\ Cardinality(PostsTo(p.label)) <= MaxAttemptsOf(env)
       /\ p.attempt = 1 <=> (i = 1 \/ posts[i - 1].label # p.label)
       /\ p.state # "inflight" =>
            ((IsRetryableFailure(p) /\ p.attempt < MaxAttemptsOf(env))
               <=> C9_NextAttemptFollows(i))
       /\ (p.state = "response" /\ ~Is2xx(p) /\ ~IsRetryableFailure(p)
             /\ C9_ReturnedToHandler(i)) =>
            /\ last.set
            /\ last.status = p.status
            /\ last.attempts = p.attempt

C9_Witness_RetriedThenStoppedAt499 ==
  /\ MaxAttemptsOf(env) = 2
  /\ Len(posts) = 3
  /\ posts[1].label = "NEXT" /\ posts[1].state = "response" /\ posts[1].status = 408
  /\ posts[2].label = "NEXT" /\ posts[2].state = "response" /\ posts[2].status = 599
  /\ posts[3].label = "ACTIVE" /\ posts[3].state = "response" /\ posts[3].status = 499
  /\ pc = "done"
  /\ res.body.attempts = 1
  /\ res.body.forwardedStatus = 499

\* C10: an absent body, or a string that does not parse as JSON - given as
\* req.rawBody or as req.body itself - is answered 200 with ok = false and an
\* error, and nothing is POSTed.
C10_EmptyOrUnparseableInput ==
  /\ req.present
  /\ \/ req.body.kind = "undefined" /\ ~req.rawBody.isString
     \/ req.body.kind = "undefined" /\ req.rawBody.isString /\ ~Parses(req.rawBody.text)
     \/ req.body.kind = "string" /\ ~Parses(req.body.text)

C10_UnparseableNeverForwarded ==
  C10_EmptyOrUnparseableInput =>
    /\ posts = <<>>
    /\ pc \in {"start", "done"}
    /\ pc = "done" =>
         /\ res.status = 200
         /\ {"ok", "error"} \subseteq res.body.keys
         /\ ~res.body.ok

\* C11: an empty array has no first record; it is answered like an empty or
\* unparseable body (200, ok = false and an error) and nothing is POSTed.
C11_EmptyArrayInput ==
  /\ req.present
  /\ Received.kind = "array"
  /\ Len(Received.items) = 0

C11_EmptyArrayIsMalformed ==
  C11_EmptyArrayInput =>
    /\ ~HasFirstRecord(Received)
    /\ posts = <<>>
    /\ pc \in {"start", "done"}
    /\ pc = "done" =>
         /\ res.status = 200
         /\ {"ok", "error"} \subseteq res.body.keys
         /\ ~res.body.ok

\* an input with a first record that is not the handshake
ForwardableInput ==
  /\ req.present
  /\ ReceivedHasFirst
  /\ ~HandshakeInput

\* C12: a forwardable input with neither slot configured (unset, empty or the
\* text "null") is answered 200 with ok = false and an error that names the
\* missing callback URL configuration, and nothing is POSTed.
C12_MissingConfigurationReported ==
  (ForwardableInput /\ NoneConfigured) =>
    /\ posts = <<>>
    /\ pc \in {"start", "done"}
    /\ pc = "done" =>
         /\ resCount = 1
         /\ res.status = 200
         /\ res.body.keys = {"ok", "error"}
         /\ ~res.body.ok
         /\ res.body.error = "No Logic App callback URL configured"

C12_Witness_BothSlotsNullText ==
  /\ ForwardableInput
  /\ env.LOGICAPP_CALLBACK_URL_NEXT = NullUrl
  /\ env.LOGICAPP_CALLBACK_URL_ACTIVE = NullUrl
  /\ Received.kind = "array"
  /\ pc = "done"
  /\ res = NoCandidatesRes

\* the handler's own code raised a fault outside the forwarding try blocks
FaultRaised == ~req.present

InFlight == {i \in DOMAIN posts : posts[i].state = "inflight"}

\* the POST ended its candidate's retry loop
FinalAttempt(p) ==
  \/ p.state = "error" /\ p.attempt = MaxAttemptsOf(env)
  \/ p.state = "response" /\ (~IsRetryableFailure(p) \/ p.attempt = MaxAttemptsOf(env))

\* C14: at most one POST is in flight, and it is the newest one; while the
\* handler sleeps in a backoff no POST is in flight; a POST to the second
\* candidate is issued only right after the attempt that ended the first
\* candidate's retry loop, the candidates are used in list order, none is
\* returned to, and each one's attempts are numbered 1, 2, ... as issued.
C14_OnePostAtATime ==
  /\ Cardinality(InFlight) <= 1
  /\ \A i \in InFlight : i = Len(posts)
  /\ pc = "posting" <=> InFlight # {}
  /\ pc = "sleeping" => (InFlight = {} /\ posts # <<>> /\ ~FinalAttempt(posts[Len(posts)]))
  /\ posts # <<>> => (posts[1].label = candidates[1].label /\ posts[1].attempt = 1)
  /\ \A j \in 2..Len(posts) :
       IF posts[j].label = posts[j - 1].label
       THEN posts[j].attempt = posts[j - 1].attempt + 1
       ELSE /\ Len(candidates) = 2
            /\ posts[j - 1].label = candidates[1].label
            /\ posts[j].label = candidates[2].label
            /\ candidates[1].label # candidates[2].label
            /\ FinalAttempt(posts[j - 1])
            /\ posts[j].attempt = 1

C14_Witness_SleptThenSecondCandidate ==
  /\ MaxAttemptsOf(env) = 2
  /\ Len(posts) = 3
  /\ posts[1].label = "NEXT" /\ posts[1].state = "error"
  /\ posts[2].label = "NEXT" /\ posts[2].state = "response" /\ posts[2].status = 503
  /\ posts[3].label = "ACTIVE" /\ posts[3].state = "inflight"
  /\ sleeps = 1
  /\ pc = "posting"

\* sleeps taken in the retry loop of the candidate with this label
SleepsOf(label) ==
  Cardinality({i \in PostsTo(label) : posts[i].attempt > 1})
  + (IF pc = "sleeping" /\ used = label THEN 1 ELSE 0)

\* C15: the delay slept after attempt a lies between
\* min(maxDelay, baseDelay * 2^(a-1)) and maxDelay and is that exponential
\* delay plus an integer jitter in [0, min(250, exponential delay)), clamped
\* to maxDelay; a sleep is taken only after a non-final attempt of the
\* candidate in use and is followed by that candidate's next attempt, so a
\* candidate sleeps at most maxAttempts - 1 times.
C15_BackoffWithinBounds ==
  LET maxA == MaxAttemptsOf(env)
      maxD == MaxDelayMsOf(env)
      grown == BaseDelayMsOf(env) * (2 ^ (attempt - 1))
      exp == IF grown <= maxD THEN grown ELSE maxD
      cap == IF exp <= 250 THEN exp ELSE 250
  IN /\ pc = "sleeping" =>
          /\ exp <= delay /\ delay <= maxD
          /\ \E jitter \in 0..(cap - 1) :
               delay = (IF exp + jitter <= maxD THEN exp + jitter ELSE maxD)
          /\ attempt < maxA
          /\ posts[Len(posts)].label = used
          /\ posts[Len(posts)].attempt = attempt
          /\ posts[Len(posts)].state \in {"response", "error"}
     /\ sleeps = SleepsOf("NEXT") + SleepsOf("ACTIVE")
     /\ SleepsOf("NEXT") <= maxA - 1
     /\ SleepsOf("ACTIVE") <= maxA - 1

C15_Witness_SecondSleepFullJitter ==
  /\ env.FORWARD_BASE_DELAY_MS = UNSET
  /\ env.FORWARD_MAX_DELAY_MS = UNSET
  /\ pc = "sleeping"
  /\ attempt = 2
  /\ delay = 1249
  /\ posts[1].state = "response" /\ posts[1].status = 503
  /\ posts[2].state = "error"
  /\ sleeps = 2

\* the handler got as far as building its candidate list
SelectionDone == \E i \in DOMAIN log : log[i].line \in {140, 154}

\* C16: the candidate list holds a NEXT entry exactly when the canary slot is
\* neither empty nor the text "null", an ACTIVE entry exactly when the stable
\* slot is; each entry carries its slot's URL; with both present NEXT comes
\* first; the list has 0, 1 or 2 entries and no label twice.
C16_CandidateListMatchesSlots ==
  SelectionDone =>
    LET labels == {candidates[i].label : i \in DOMAIN candidates}
    IN /\ labels \subseteq {"NEXT", "ACTIVE"}
       /\ "NEXT" \in labels <=> SlotConfigured(env.LOGICAPP_CALLBACK_URL_NEXT)
       /\ "ACTIVE" \in labels <=> SlotConfigured(env.LOGICAPP_CALLBACK_URL_ACTIVE)
       /\ \A i \in DOMAIN candidates :
            candidates[i].url = (IF candidates[i].label = "NEXT"
                                 THEN env.LOGICAPP_CALLBACK_URL_NEXT
                                 ELSE env.LOGICAPP_CALLBACK_URL_ACTIVE)
       /\ Len(candidates) \in 0..2
       /\ Len(candidates) = Cardinality(labels)
       /\ Len(candidates) = 2 => (candidates[1].label = "NEXT" /\ candidates[2].label = "ACTIVE")

C16_Witness_BothSlotsListed ==
  /\ BothConfigured
  /\ SelectionDone
  /\ Len(candidates) = 2
  /\ candidates[1].url = NextUrl
  /\ candidates[2].url = ActiveUrl
  /\ Len(posts) = 1

\* the response is a forward outcome
ForwardOutcome == pc = "done" /\ "usedCallback" \in res.body.keys

\* C17: in every forward outcome attempts is the number of POSTs issued to
\* the candidate that usedCallback names, whether that candidate answered,
\* ended in network-level exhaustion, or was tried after an earlier candidate.
C17_AttemptsCountsPosts ==
  ForwardOutcome =>
    /\ "attempts" \in res.body.keys
    /\ res.body.usedCallback \in {candidates[i].label : i \in DOMAIN candidates}
    /\ res.body.attempts = Cardinality(PostsTo(res.body.usedCallback))
    /\ posts[Len(posts)].label = res.body.usedCallback

C17_Witness_StableExhaustedAfterCanary ==
  /\ ForwardOutcome
  /\ MaxAttemptsOf(env) = 2
  /\ Len(posts) = 3
  /\ posts[1].label = "NEXT" /\ posts[1].state = "response" /\ posts[1].status = 404
  /\ posts[2].label = "ACTIVE" /\ posts[2].state = "response" /\ posts[2].status = 503
  /\ posts[3].label = "ACTIVE" /\ posts[3].state = "error"
  /\ res.body.usedCallback = "ACTIVE"
  /\ res.body.attempts = 2

\* the values of the sig parameters of a URL
SigTokens(url) ==
  {url[i] : i \in {k \in 3..Len(url) : url[k - 1] = "=" /\ url[k - 2] \in {"sig", "Sig", "SIG"}}}

ConfiguredSigTokens ==
  SigTokens(env.LOGICAPP_CALLBACK_URL_NEXT) \cup SigTokens(env.LOGICAPP_CALLBACK_URL_ACTIVE)

LoopThrew(label) == \E i \in DOMAIN log : log[i].line = 201 /\ log[i].text[1] = label
LoopReturned(label) == \E i \in DOMAIN log : log[i].line = 172 /\ log[i].text[1] = label

\* C19: a candidate's retry loop throws exactly when its attempt number
\* maxAttempts failed at the network level; when that attempt got an HTTP
\* response, even a non-2xx one after network failures only, the loop returns
\* it as a result with that status and attempts = maxAttempts.
C19_ThrowsIffFinalAttemptFailed ==
  /\ \A label \in {"NEXT", "ACTIVE"} :
       /\ LoopThrew(label) <=>
            \E i \in PostsTo(label) :
              posts[i].attempt = MaxAttemptsOf(env) /\ posts[i].state = "error"
       /\ \A i \in PostsTo(label) :
            (posts[i].attempt = MaxAttemptsOf(env) /\ posts[i].state = "response") =>
              (LoopReturned(label) /\ ~LoopThrew(label))
       /\ ~(LoopThrew(label) /\ LoopReturned(label))
  /\ (posts # <<>> /\ posts[Len(posts)].attempt = MaxAttemptsOf(env)
                   /\ posts[Len(posts)].state = "response") =>
       last = [set |-> TRUE, status |-> posts[Len(posts)].status,
               attempts |-> MaxAttemptsOf(env)]

C19_Witness_ResponseAfterNetworkFailures ==
  /\ MaxAttemptsOf(env) = 3
  /\ Len(posts) = 3
  /\ posts[1].label = "ACTIVE" /\ posts[1].state = "error"
  /\ posts[2].state = "error"
  /\ posts[3].state = "response" /\ posts[3].status = 503
  /\ pc = "done"
  /\ LoopReturned("ACTIVE")
  /\ res.body.forwardedStatus = 503
  /\ res.body.attempts = 3

\* responses the candidate in use received before its loop threw
ResponsesOfUsed == {i \in PostsTo(used) : posts[i].state = "response"}

\* C20: when the candidate in use ends in network-level exhaustion after an
\* earlier attempt of the same loop got an HTTP response, the outcome reports
\* the status of the most recent such response.
C20_ExhaustionKeepsLastResponse ==
  (/\ ForwardOutcome
   /\ LoopThrew(used)
   /\ posts[Len(posts)].label = used
   /\ ResponsesOfUsed # {}) =>
    LET k == CHOOSE i \in ResponsesOfUsed : \A j \in ResponsesOfUsed : j <= i
    IN /\ retryLast.status = posts[k].status
       /\ res.body.forwardedStatus = posts[k].status

\* the canary's retry loop threw and the handler moved on to the stable candidate
CanaryFailedOver ==
  /\ FallbackEnabled
  /\ BothConfigured
  /\ LoopThrew("NEXT")

\* C21: with fallback enabled, after the canary ended in network-level
\* exhaustion the stable candidate is attempted, and the final outcome holds
\* the captured error details exactly when it is not ok: none in an ok = true
\* outcome, the details in every ok = false outcome, also when the stable
\* candidate answered with a non-2xx status.
C21_CanaryDetailsInFailedOutcome ==
  CanaryFailedOver =>
    /\ PostsTo("ACTIVE") # {}
    /\ pc = "done" =>
         /\ res.body.ok => "details" \notin res.body.keys
         /\ ~res.body.ok => ("details" \in res.body.keys /\ res.body.details = NetworkError)

\* the part of C21 outside the stable candidate's non-2xx answer
C21_DetailsElsewhere ==
  (CanaryFailedOver /\ ~(pc = "done" /\ posts[Len(posts)].state = "response"
                                     /\ ~Is2xx(posts[Len(posts)]))) =>
    /\ PostsTo("ACTIVE") # {}
    /\ pc = "done" =>
         /\ res.body.ok => "details" \notin res.body.keys
         /\ ~res.body.ok => ("details" \in res.body.keys /\ res.body.details = NetworkError)

CanaryOnly ==
  /\ SlotConfigured(env.LOGICAPP_CALLBACK_URL_NEXT)
  /\ ~SlotConfigured(env.LOGICAPP_CALLBACK_URL_ACTIVE)

\* C22: in a forward outcome that is not ok, usedCallback, attempts and
\* forwardedStatus describe the candidate of the last POST: its label, its
\* attempt number, and its status, or 0 when that POST failed at the network
\* level; with the canary as only candidate and fallback enabled every POST
\* goes to the canary and the outcome follows the attempt that ended its loop.
C22_FailedOutcomeDescribesLastCandidate ==
  /\ (ForwardOutcome /\ ~res.body.ok) =>
       LET p == posts[Len(posts)]
       IN /\ p.state \in {"response", "error"}
          /\ FinalAttempt(p)
          /\ res.body.usedCallback = p.label
          /\ res.body.attempts = p.attempt
          /\ res.body.forwardedStatus = (IF p.state = "error" THEN 0 ELSE p.status)
  /\ (CanaryOnly /\ FallbackEnabled) =>
       /\ \A i \in DOMAIN posts : posts[i].label = "NEXT"
       /\ Len(posts) <= MaxAttemptsOf(env)
       /\ (posts # <<>> /\ FinalAttempt(posts[Len(posts)])) => pc = "done"

C22_Witness_CanaryOnlyExhausted ==
  /\ CanaryOnly
  /\ FallbackEnabled
  /\ MaxAttemptsOf(env) = 2
  /\ Len(posts) = 1
  /\ posts[1].state = "response" /\ posts[1].status = 404
  /\ pc = "done"
  /\ res.body.error = "Forwarding failed (all candidates exhausted)"
  /\ res.body.forwardedStatus = 404
  /\ res.body.attempts = 1
  /\ res.body.usedCallback = "NEXT"

\* C23: in every forward outcome ok holds exactly when forwardedStatus is in
\* 200..299 and exactly when some POST of the invocation got a 2xx response;
\* a 2xx response is always the last POST, and the outcome names its
\* candidate and reports its status.
C23_OkIffSome2xx ==
  /\ ForwardOutcome =>
       /\ res.body.ok <=> res.body.forwardedStatus \in 200..299
       /\ res.body.ok <=> \E i \in DOMAIN posts : Is2xx(posts[i])
  /\ \A i \in DOMAIN posts :
       Is2xx(posts[i]) =>
         /\ i = Len(posts)
         /\ ForwardOutcome
         /\ res.body.usedCallback = posts[i].label
         /\ res.body.forwardedStatus = posts[i].status

C23_Witness_StableAnswers299 ==
  /\ ForwardOutcome
  /\ Len(posts) = 2
  /\ posts[1].label = "NEXT" /\ posts[1].state = "response" /\ posts[1].status = 300
  /\ posts[2].label = "ACTIVE" /\ posts[2].state = "response" /\ posts[2].status = 299
  /\ res.body.ok
  /\ res.body.usedCallback = "ACTIVE"

C24_Bounded ==
  /\ resCount <= 1
  /\ pc = "done" <=> resCount = 1
  /\ Cardinality(PostsTo("NEXT")) <= MaxAttemptsOf(env)
  /\ Cardinality(PostsTo("ACTIVE")) <= MaxAttemptsOf(env)
  /\ Len(posts) <= 2 * MaxAttemptsOf(env)

\* C24: when every POST settles and every sleep ends, the invocation ends
\* with its response set exactly once; a response that is set is never
\* changed; each candidate gets at most maxAttempts POSTs and the invocation
\* at most 2 * maxAttempts.
C24_TerminatesWithOneResponse ==
  /\ []C24_Bounded
  /\ [][resCount >= 1 => (res' = res /\ resCount' = resCount)]_vars
  /\ <>(pc = "done" /\ resCount = 1)

C24_Witness_BothBudgetsSpent ==
  /\ MaxAttemptsOf(env) = 2
  /\ pc = "done"
  /\ resCount = 1
  /\ Len(posts) = 4
  /\ posts[2].label = "NEXT" /\ posts[2].state = "response" /\ posts[2].status = 503
  /\ posts[4].label = "ACTIVE" /\ posts[4].state = "error"

\* a batch of records, and whether a handshake record sits behind the first
BatchInput == req.present /\ Received.kind = "array" /\ Len(Received.items) >= 1
HandshakeBehindFirst ==
  \E i \in 2..Len(Received.items) : Received.items[i].eventType = ValidationEventType

\* C25: a batch is classified by its first record alone. With a handshake
\* first it is answered as a handshake with that record's code and nothing is
\* POSTed, whatever follows; with another record first it is never answered
\* as a handshake and, when a slot is configured, every POST carries the
\* whole batch, a handshake record at a later position included.
C25_ClassifiedByFirstRecord ==
  BatchInput =>
    IF Received.items[1].eventType = ValidationEventType
    THEN /\ posts = <<>>
         /\ pc \in {"start", "done"}
         /\ pc = "done" =>
              /\ res.body.keys = {"validationResponse"}
              /\ res.body.validationResponse =
                   (IF Received.items[1].data.validationCode = UNDEF THEN ""
                    ELSE Received.items[1].data.validationCode)
    ELSE /\ pc = "done" => "validationResponse" \notin res.body.keys
         /\ (pc # "start" /\ ~NoneConfigured) => posts # <<>>
         /\ \A i \in DOMAIN posts :
              /\ posts[i].payload = Stringify(Received)
              /\ JsonParse(posts[i].payload).items = Received.items

C25_Witness_LaterHandshakeForwarded ==
  /\ BatchInput
  /\ Received.items[1].eventType = BlobCreatedType
  /\ HandshakeBehindFirst
  /\ pc = "done"
  /\ res.body.ok
  /\ Len(posts) = 1
  /\ Len(JsonParse(posts[1].payload).items) = 2
  /\ JsonParse(posts[1].payload).items[2].eventType = ValidationEventType

C25_Witness_HandshakeFirstOthersDropped ==
  /\ BatchInput
  /\ Len(Received.items) = 2
  /\ Received.items[1].eventType = ValidationEventType
  /\ Received.items[2].eventType = BlobCreatedType
  /\ ~NoneConfigured
  /\ pc = "done"
  /\ posts = <<>>

====
